---- MODULE Spec2Model ----
(***************************************************************************)
(* Model of the bulk CSV import handler upload_products_csv of the         *)
(* products API (src/src/handlers.rs).  A string is a sequence of          *)
(* one-character strings; the characters U+200B, U+FEFF, carriage return,  *)
(* line feed and tab are written "ZWSP", "BOM", "CR", "LF", "TAB".         *)
(***************************************************************************)
EXTENDS Integers, Sequences, FiniteSets, TLC

(***************************************************************************)
(* Bounds of the model.                                                    *)
(***************************************************************************)
MaxFields == 2
MaxChunks == 1
MaxRows == 3
MaxNameLen == 4
MaxPriceLen == 4

(***************************************************************************)
(* Characters and character classes (char::is_alphanumeric,                *)
(* char::is_whitespace, str::to_lowercase).                                *)
(***************************************************************************)
Digits == {"0", "1", "2", "3", "4", "5", "6", "7", "8", "9"}

LowerLetters ==
    {"a", "b", "c", "d", "e", "f", "g", "h", "i", "j", "k", "l", "m",
     "n", "o", "p", "q", "r", "s", "t", "u", "v", "w", "x", "y", "z"}

UpperLetters ==
    {"A", "B", "C", "D", "E", "F", "G", "H", "I", "J", "K", "L", "M",
     "N", "O", "P", "Q", "R", "S", "T", "U", "V", "W", "X", "Y", "Z"}

LowerOf ==
    [c \in UpperLetters |->
        CASE c = "A" -> "a" [] c = "B" -> "b" [] c = "C" -> "c"
          [] c = "D" -> "d" [] c = "E" -> "e" [] c = "F" -> "f"
          [] c = "G" -> "g" [] c = "H" -> "h" [] c = "I" -> "i"
          [] c = "J" -> "j" [] c = "K" -> "k" [] c = "L" -> "l"
          [] c = "M" -> "m" [] c = "N" -> "n" [] c = "O" -> "o"
          [] c = "P" -> "p" [] c = "Q" -> "q" [] c = "R" -> "r"
          [] c = "S" -> "s" [] c = "T" -> "t" [] c = "U" -> "u"
          [] c = "V" -> "v" [] c = "W" -> "w" [] c = "X" -> "x"
          [] c = "Y" -> "y" [] c = "Z" -> "z"]

IsAlphanumeric(c) == c \in Digits \cup LowerLetters \cup UpperLetters

IsWhitespace(c) == c \in {" ", "TAB", "CR", "LF"}

ToLowercase(s) ==
    [i \in 1..Len(s) |-> IF s[i] \in UpperLetters THEN LowerOf[s[i]] ELSE s[i]]

(***************************************************************************)
(* str::trim, str::trim_start_matches, str::trim_end_matches,              *)
(* str::split_once, str::replace over sequences of characters.             *)
(***************************************************************************)
RECURSIVE TrimStart(_)
TrimStart(s) ==
    IF s # <<>> /\ IsWhitespace(Head(s)) THEN TrimStart(Tail(s)) ELSE s

RECURSIVE TrimEnd(_)
TrimEnd(s) ==
    IF s # <<>> /\ IsWhitespace(s[Len(s)])
    THEN TrimEnd(SubSeq(s, 1, Len(s) - 1))
    ELSE s

Trim(s) == TrimEnd(TrimStart(s))

RECURSIVE TrimStartMatches(_, _)
TrimStartMatches(s, c) ==
    IF s # <<>> /\ Head(s) = c THEN TrimStartMatches(Tail(s), c) ELSE s

RECURSIVE TrimEndMatches(_, _)
TrimEndMatches(s, c) ==
    IF s # <<>> /\ s[Len(s)] = c
    THEN TrimEndMatches(SubSeq(s, 1, Len(s) - 1), c)
    ELSE s

Contains(s, c) == \E i \in 1..Len(s) : s[i] = c

FirstIndex(s, c) == CHOOSE i \in 1..Len(s) : s[i] = c /\ \A j \in 1..(i - 1) : s[j] # c

RemoveAll(s, cs) == SelectSeq(s, LAMBDA c : c \notin cs)

(***************************************************************************)
(* record.get(i).unwrap_or(default): csv records are indexed from 0.       *)
(***************************************************************************)
GetOr(record, i, default) == IF i + 1 <= Len(record) THEN record[i + 1] ELSE default

(***************************************************************************)
(* Name splitting and the sanitizers of the first column.                  *)
(***************************************************************************)
RawName(record) == Trim(GetOr(record, 0, <<>>))

SplitName(raw_name) ==
    IF Contains(raw_name, "#")
    THEN LET k == FirstIndex(raw_name, "#")
         IN [product_name |-> Trim(SubSeq(raw_name, 1, k - 1)),
             product_id |-> Trim(SubSeq(raw_name, k + 1, Len(raw_name)))]
    ELSE [product_name |-> raw_name, product_id |-> <<>>]

IsIdChar(c) == IsAlphanumeric(c) \/ c = "-" \/ c = "_"

\* variant: the '#' is put back without the check for an empty id
SanitizedIdAlwaysPrefixed(product_id) ==
    IF product_id # <<>>
    THEN LET id_content == TrimEndMatches(TrimStartMatches(product_id, "("), ")")
             clean_id == SelectSeq(id_content, IsIdChar)
         IN <<"#">> \o clean_id
    ELSE <<>>

SanitizedId(product_id) ==
    IF product_id # <<>>
    THEN LET id_content == TrimEndMatches(TrimStartMatches(product_id, "("), ")")
             clean_id == SelectSeq(id_content, IsIdChar)
         IN IF clean_id = <<>> THEN <<>> ELSE <<"#">> \o clean_id
    ELSE <<>>

IsNameChar(c) == IsAlphanumeric(c) \/ IsWhitespace(c) \/ c = "-"

CleanName(product_name) == Trim(SelectSeq(product_name, IsNameChar))

PriceStr(record) == Trim(GetOr(record, 1, <<>>))

CategoryStr(record) == ToLowercase(Trim(GetOr(record, 2, <<>>)))

ParseBool(s) ==
    IF s = <<"t", "r", "u", "e">> THEN [ok |-> TRUE, value |-> TRUE]
    ELSE IF s = <<"f", "a", "l", "s", "e">> THEN [ok |-> TRUE, value |-> FALSE]
    ELSE [ok |-> FALSE, value |-> FALSE]

HasActiveSale(record) ==
    LET parsed == ParseBool(Trim(GetOr(record, 3, <<"f", "a", "l", "s", "e">>)))
    IN IF parsed.ok THEN parsed.value ELSE FALSE

\* variant: only one leading '$' is stripped (strip_prefix)
CleanedPriceSingleDollar(price_str) ==
    RemoveAll(Trim(IF price_str # <<>> /\ Head(price_str) = "$" THEN Tail(price_str) ELSE price_str),
              {"ZWSP", "BOM", "CR", "LF"})

CleanedPrice(price_str) ==
    RemoveAll(Trim(TrimStartMatches(price_str, "$")), {"ZWSP", "BOM", "CR", "LF"})

CategoryOf(category_str) ==
    IF category_str = <<"e", "l", "e", "c", "t", "r", "o", "n", "i", "c", "s">> THEN "Electronics"
    ELSE IF category_str = <<"c", "l", "o", "t", "h", "i", "n", "g">> THEN "Clothing"
    ELSE IF category_str = <<"f", "o", "o", "d">> THEN "Food"
    ELSE IF category_str = <<"b", "o", "o", "k", "s">> THEN "Books"
    ELSE "Other"

(***************************************************************************)
(* cleaned_price.parse::<f64>() and the Display of an f64.  A parsed value *)
(* is [class, neg, mant, scale]: class "num" stands for                    *)
(* (-1)^neg * mant / 10^scale with no trailing zero in the fraction; the   *)
(* values of the model are short decimals, which f64 reads and prints      *)
(* without rounding.                                                       *)
(***************************************************************************)
DigitVal ==
    [c \in Digits |->
        CASE c = "0" -> 0 [] c = "1" -> 1 [] c = "2" -> 2 [] c = "3" -> 3
          [] c = "4" -> 4 [] c = "5" -> 5 [] c = "6" -> 6 [] c = "7" -> 7
          [] c = "8" -> 8 [] c = "9" -> 9]

DigitChar == <<"0", "1", "2", "3", "4", "5", "6", "7", "8", "9">>

RECURSIVE DigitsToNat(_)
DigitsToNat(s) ==
    IF s = <<>> THEN 0
    ELSE 10 * DigitsToNat(SubSeq(s, 1, Len(s) - 1)) + DigitVal[s[Len(s)]]

RECURSIVE NatToChars(_)
NatToChars(n) ==
    IF n < 10 THEN <<DigitChar[n + 1]>>
    ELSE NatToChars(n \div 10) \o <<DigitChar[(n % 10) + 1]>>

RECURSIVE Pow10(_)
Pow10(k) == IF k = 0 THEN 1 ELSE 10 * Pow10(k - 1)

RECURSIVE Normalize(_, _)
Normalize(mant, scale) ==
    IF mant = 0 THEN [mant |-> 0, scale |-> 0]
    ELSE IF scale > 0 /\ mant % 10 = 0 THEN Normalize(mant \div 10, scale - 1)
    ELSE [mant |-> mant, scale |-> scale]

AllDigits(s) == \A i \in 1..Len(s) : s[i] \in Digits

ParseErr(detail) ==
    [ok |-> FALSE, err |-> detail, class |-> "num", neg |-> FALSE, mant |-> 0, scale |-> 0]

ParseOk(class, neg, mant, scale) ==
    [ok |-> TRUE, err |-> "", class |-> class, neg |-> neg, mant |-> mant, scale |-> scale]

ParseDecimal(neg, body) ==
    LET hasExp == Contains(body, "e") \/ Contains(body, "E")
        ePos == CHOOSE i \in 1..Len(body) :
                    /\ body[i] \in {"e", "E"}
                    /\ \A j \in 1..(i - 1) : body[j] \notin {"e", "E"}
        mantStr == IF hasExp THEN SubSeq(body, 1, ePos - 1) ELSE body
        expStr == IF hasExp THEN SubSeq(body, ePos + 1, Len(body)) ELSE <<>>
        expNeg == expStr # <<>> /\ Head(expStr) = "-"
        expDigits == IF expStr # <<>> /\ Head(expStr) \in {"+", "-"}
                     THEN Tail(expStr) ELSE expStr
        hasDot == Contains(mantStr, ".")
        dot == FirstIndex(mantStr, ".")
        intStr == IF hasDot THEN SubSeq(mantStr, 1, dot - 1) ELSE mantStr
        fracStr == IF hasDot THEN SubSeq(mantStr, dot + 1, Len(mantStr)) ELSE <<>>
        valid == /\ AllDigits(intStr)
                 /\ AllDigits(fracStr)
                 /\ Len(intStr) + Len(fracStr) >= 1
                 /\ hasExp => (expDigits # <<>> /\ AllDigits(expDigits))
        exp == IF hasExp THEN DigitsToNat(expDigits) ELSE 0
        scale0 == IF expNeg THEN Len(fracStr) + exp ELSE Len(fracStr) - exp
        mant0 == DigitsToNat(intStr \o fracStr)
        n == IF scale0 < 0 THEN Normalize(mant0 * Pow10(0 - scale0), 0)
             ELSE Normalize(mant0, scale0)
    IN IF valid THEN ParseOk("num", neg, n.mant, n.scale)
       ELSE ParseErr("invalid float literal")

ParseF64(s) ==
    IF s = <<>> THEN ParseErr("cannot parse float from empty string")
    ELSE LET signed == Head(s) \in {"+", "-"}
             neg == Head(s) = "-"
             body == IF signed THEN Tail(s) ELSE s
             low == ToLowercase(body)
         IN IF body = <<>> THEN ParseErr("invalid float literal")
            ELSE IF low = <<"n", "a", "n">> THEN ParseOk("nan", neg, 0, 0)
            ELSE IF low \in {<<"i", "n", "f">>, <<"i", "n", "f", "i", "n", "i", "t", "y">>}
                 THEN ParseOk("inf", neg, 0, 0)
            ELSE ParseDecimal(neg, body)

\* variant: the check is written !(p < 0.0), which lets NaN through
NotBelowZero(p) ==
    CASE p.class = "nan" -> TRUE
      [] p.class = "inf" -> ~p.neg
      [] OTHER -> ~p.neg \/ p.mant = 0

\* p >= 0.0 (false for NaN, true for -0.0)
NonNegative(p) ==
    CASE p.class = "nan" -> FALSE
      [] p.class = "inf" -> ~p.neg
      [] OTHER -> ~p.neg \/ p.mant = 0

RECURSIVE Zeros(_)
Zeros(k) == IF k <= 0 THEN <<>> ELSE <<"0">> \o Zeros(k - 1)

\* format!("{}", p)
DisplayF64(p) ==
    CASE p.class = "nan" -> <<"N", "a", "N">>
      [] p.class = "inf" -> (IF p.neg THEN <<"-">> ELSE <<>>) \o <<"i", "n", "f">>
      [] OTHER ->
           LET ip == p.mant \div Pow10(p.scale)
               fp == p.mant % Pow10(p.scale)
               fchars == NatToChars(fp)
           IN (IF p.neg THEN <<"-">> ELSE <<>>)
              \o NatToChars(ip)
              \o (IF p.scale > 0
                  THEN <<".">> \o Zeros(p.scale - Len(fchars)) \o fchars
                  ELSE <<>>)

Zero == [class |-> "num", neg |-> FALSE, mant |-> 0, scale |-> 0]

ValueOf(parsed) ==
    [class |-> parsed.class, neg |-> parsed.neg, mant |-> parsed.mant, scale |-> parsed.scale]

(***************************************************************************)
(* Validation of one parsed record (the Ok arm of the record loop).        *)
(***************************************************************************)
ErrorDoc(line, error, record) == [line |-> line, error |-> error, data |-> record]

ParseErrorDoc(line, detail) ==
    [line |-> line, error |-> <<"Failed to parse CSV record: ", detail>>]

DatabaseErrorDoc(line, detail, record) ==
    ErrorDoc(line, <<"Database error: ", detail>>, record)

\* variant: the column check is off by one
ColumnCountErrorBelowThree(record) == Len(record) < 3

ColumnCountError(record) == Len(record) < 4

ProductName(record) == SplitName(RawName(record)).product_name

ProductId(record) == SplitName(RawName(record)).product_id

NameError(record) == CleanName(ProductName(record)) = <<>>

\* the price arm: the error message pushed, if any, and the price kept
PriceCheck(record) ==
    LET price_str == PriceStr(record)
        parsed == ParseF64(CleanedPrice(price_str))
    IN IF price_str = <<>>
       THEN [error |-> TRUE, message |-> <<"Price is required">>, price |-> Zero]
       ELSE IF parsed.ok /\ NonNegative(ValueOf(parsed))
       THEN [error |-> FALSE, message |-> <<>>, price |-> ValueOf(parsed)]
       ELSE IF parsed.ok
       THEN [error |-> TRUE,
             message |-> <<"Invalid price: must be non-negative, got: '">>
                         \o DisplayF64(ValueOf(parsed)) \o <<"'">>,
             price |-> Zero]
       ELSE [error |-> TRUE,
             message |-> <<"Invalid price format. Expected format: $X.XX, got: '">>
                         \o price_str \o <<"'. Parse error: ", parsed.err>>,
             price |-> Zero]

\* variant: the name check runs before the column check
RowErrorsNameFirst(record, line) ==
    (IF NameError(record)
     THEN <<ErrorDoc(line, <<"Name is required">>, record)>> ELSE <<>>)
    \o (IF ColumnCountError(record)
        THEN <<ErrorDoc(line, <<"Invalid number of columns">>, record)>> ELSE <<>>)
    \o (IF PriceCheck(record).error
        THEN <<ErrorDoc(line, PriceCheck(record).message, record)>> ELSE <<>>)

\* variant: a bad price sets has_error but records nothing
RowErrorsNoPrice(record, line) ==
    (IF ColumnCountError(record)
     THEN <<ErrorDoc(line, <<"Invalid number of columns">>, record)>> ELSE <<>>)
    \o (IF NameError(record)
        THEN <<ErrorDoc(line, <<"Name is required">>, record)>> ELSE <<>>)

\* the errors one record pushes, in the order the code pushes them
RowErrors(record, line) ==
    (IF ColumnCountError(record)
     THEN <<ErrorDoc(line, <<"Invalid number of columns">>, record)>> ELSE <<>>)
    \o (IF NameError(record)
        THEN <<ErrorDoc(line, <<"Name is required">>, record)>> ELSE <<>>)
    \o (IF PriceCheck(record).error
        THEN <<ErrorDoc(line, PriceCheck(record).message, record)>> ELSE <<>>)

\* variant: the column check forgets to set has_error
HasErrorIgnoresColumns(record) == NameError(record) \/ PriceCheck(record).error

\* the has_error flag at line 397
HasError(record) ==
    ColumnCountError(record) \/ NameError(record) \/ PriceCheck(record).error

\* variant: the assembled name is trimmed
ProductOfTrimmed(record) ==
    [name |-> Trim(CleanName(ProductName(record)) \o <<" ">> \o SanitizedId(ProductId(record))),
     price |-> PriceCheck(record).price,
     category |-> CategoryOf(CategoryStr(record)),
     has_active_sale |-> HasActiveSale(record)]

ProductOf(record) ==
    [name |-> CleanName(ProductName(record)) \o <<" ">> \o SanitizedId(ProductId(record)),
     price |-> PriceCheck(record).price,
     category |-> CategoryOf(CategoryStr(record)),
     has_active_sale |-> HasActiveSale(record)]

NoProduct == [name |-> <<>>, price |-> Zero, category |-> "Other", has_active_sale |-> FALSE]

NextLineNumber(line_number) == line_number + 1

\* variant: the insert is counted whatever its result
CountAfterInsertAlways(success_count, ok) == success_count + 1

CountAfterInsert(success_count, ok) == IF ok THEN success_count + 1 ELSE success_count

(***************************************************************************)
(* The records the csv reader can yield (fields already trimmed by         *)
(* Trim::All), and the details of the failures of the collaborators.       *)
(***************************************************************************)
SampleRecords ==
    { <<<<"W", " ", "#", "4">>, <<"$", "1", ".", "5">>, <<"f", "o", "o", "d">>, <<"t", "r", "u", "e">>>>,
      <<<<>>, <<>>, <<>>, <<>>>>,
      <<<<"G">>, <<"a", "b", "c">>, <<"t", "o", "y", "s">>, <<"f", "a", "l", "s", "e">>>>,
      <<<<"W">>, <<"5">>, <<"f", "o", "o", "d">>>>,
      <<<<>>, <<"x">>>> }

ParseErrorDetails == {"invalid utf-8"}

DatabaseErrorDetails == {"duplicate key"}

(***************************************************************************)
(* State of one request.                                                   *)
(*   pc            position of the handler: "fields" (payload.next()),     *)
(*                 "chunks" (field.next()), "rows" (rdr.records()),        *)
(*                 "insert" (insert_one awaited), "done" (returned)        *)
(*   nfields       multipart items taken from the payload                  *)
(*   nfiles        history: how many of these items were fields named      *)
(*                 "file"                                                  *)
(*   nchunks       chunks of the current field written to the temp file    *)
(*   has_data      the temp file the reader was built on is not empty      *)
(*   line_number, errors, success_count   the handler's locals            *)
(*   product       the product handed to insert_one while it is awaited    *)
(*   store         the documents inserted into the products collection     *)
(*   response      what the handler returned                               *)
(*   log           history: one entry per record the reader yielded        *)
(*   errRow        history: for each element of errors, the index in log   *)
(*                 of the record that pushed it                            *)
(***************************************************************************)
VARIABLES pc, nfields, nfiles, nchunks, has_data, line_number, errors, success_count,
          product, store, response, log, errRow

vars == <<pc, nfields, nfiles, nchunks, has_data, line_number, errors, success_count,
          product, store, response, log, errRow>>

NoResponse == [kind |-> "none"]

Fault(status, text) == [kind |-> "fault", status |-> status, text |-> text]

\* variant: success is reported as soon as something was imported
OutcomeSuccessIfAny(errs, count) ==
    IF errs = <<>> \/ count > 0
    THEN [kind |-> "message", status |-> 200, n |-> count]
    ELSE [kind |-> "errors", status |-> 422, errors |-> errs]

\* lines 433-444
Outcome(errs, count) ==
    IF errs = <<>>
    THEN [kind |-> "message", status |-> 200, n |-> count]
    ELSE [kind |-> "errors", status |-> 422, errors |-> errs]

Init ==
    /\ pc = "fields"
    /\ nfields = 0
    /\ nfiles = 0
    /\ nchunks = 0
    /\ has_data = FALSE
    /\ line_number = 0
    /\ errors = <<>>
    /\ success_count = 0
    /\ product = NoProduct
    /\ store = <<>>
    /\ response = NoResponse
    /\ log = <<>>
    /\ errRow = <<>>

\* a `?` on an Err: the handler returns the fault and drops its locals
Fail(status, text) ==
    /\ pc' = "done"
    /\ response' = Fault(status, text)
    /\ UNCHANGED <<nfields, nfiles, nchunks, has_data, line_number, errors, success_count,
                   product, store, log, errRow>>

\* payload.next() yields a field named "file"; the temp file is created
NextFieldFile ==
    /\ pc = "fields"
    /\ nfields < MaxFields
    /\ nfields' = nfields + 1
    /\ nfiles' = nfiles + 1
    /\ nchunks' = 0
    /\ pc' = "chunks"
    /\ UNCHANGED <<has_data, line_number, errors, success_count, product, store,
                   response, log, errRow>>

\* payload.next() yields a field with another name: nothing is done with it
NextFieldOther ==
    /\ pc = "fields"
    /\ nfields < MaxFields
    /\ nfields' = nfields + 1
    /\ UNCHANGED <<pc, nfiles, nchunks, has_data, line_number, errors, success_count, product,
                   store, response, log, errRow>>

\* payload.next() yields Err
MultipartError ==
    /\ pc = "fields"
    /\ Fail(400, "Multipart error")

\* NamedTempFile::new() fails for a field named "file"
TempFileError ==
    /\ pc = "fields"
    /\ nfields < MaxFields
    /\ Fail(500, "Failed to process file")

\* field.next() yields a chunk, written to the temp file
ReadChunk ==
    /\ pc = "chunks"
    /\ nchunks < MaxChunks
    /\ nchunks' = nchunks + 1
    /\ UNCHANGED <<pc, nfields, nfiles, has_data, line_number, errors, success_count,
                   product, store, response, log, errRow>>

\* field.next() yields Err: the upload is cut
ChunkError ==
    /\ pc = "chunks"
    /\ Fail(400, "Failed to read uploaded file")

\* write_all fails
WriteError ==
    /\ pc = "chunks"
    /\ nchunks < MaxChunks
    /\ Fail(500, "Failed to process file")

\* variant: the accumulators are declared inside the field loop
OpenReaderResets ==
    /\ pc = "chunks"
    /\ pc' = "rows"
    /\ has_data' = (nchunks > 0)
    /\ nchunks' = 0
    /\ line_number' = 2
    /\ errors' = <<>>
    /\ errRow' = <<>>
    /\ success_count' = 0
    /\ UNCHANGED <<nfields, nfiles, product, store, response, log>>

\* field.next() yields None; the temp file is reopened and the reader built
OpenReader ==
    /\ pc = "chunks"
    /\ pc' = "rows"
    /\ has_data' = (nchunks > 0)
    /\ nchunks' = 0
    /\ line_number' = 2
    /\ UNCHANGED <<nfields, nfiles, errors, success_count, product, store,
                   response, log, errRow>>

\* temp_file.reopen() fails
ReopenError ==
    /\ pc = "chunks"
    /\ Fail(500, "Failed to process file")

LogEntry(parsed, record, attempted, outcome) ==
    [field |-> nfields, line |-> line_number, parsed |-> parsed,
     record |-> record, attempted |-> attempted, outcome |-> outcome]

\* variant: the insert is spawned and the loop goes on without awaiting it
ReadRecordSpawns(record) ==
    /\ pc = "rows"
    /\ has_data
    /\ Len(log) < MaxRows
    /\ errors' = errors \o RowErrors(record, line_number)
    /\ errRow' = errRow \o [i \in 1..Len(RowErrors(record, line_number)) |-> Len(log) + 1]
    /\ product' = IF ~HasError(record) THEN ProductOf(record) ELSE product
    /\ log' = Append(log, IF ~HasError(record)
                          THEN LogEntry(TRUE, record, TRUE, "pending")
                          ELSE LogEntry(TRUE, record, FALSE, "none"))
    /\ line_number' = NextLineNumber(line_number)
    /\ UNCHANGED <<pc, nfields, nfiles, nchunks, has_data, success_count, store, response>>

\* rdr.records() yields Ok(record): the record is validated and, without
\* errors, handed to insert_one
ReadRecord(record) ==
    /\ pc = "rows"
    /\ has_data
    /\ Len(log) < MaxRows
    /\ errors' = errors \o RowErrors(record, line_number)
    /\ errRow' = errRow \o [i \in 1..Len(RowErrors(record, line_number)) |-> Len(log) + 1]
    /\ IF ~HasError(record)
       THEN /\ product' = ProductOf(record)
            /\ pc' = "insert"
            /\ line_number' = line_number
            /\ log' = Append(log, LogEntry(TRUE, record, TRUE, "pending"))
       ELSE /\ product' = product
            /\ pc' = "rows"
            /\ line_number' = NextLineNumber(line_number)
            /\ log' = Append(log, LogEntry(TRUE, record, FALSE, "none"))
    /\ UNCHANGED <<nfields, nfiles, nchunks, has_data, success_count, store, response>>

\* variant: the line counter advances in the Ok arm only
RecordParseErrorKeepsLine(detail) ==
    /\ pc = "rows"
    /\ has_data
    /\ Len(log) < MaxRows
    /\ errors' = Append(errors, ParseErrorDoc(line_number, detail))
    /\ errRow' = Append(errRow, Len(log) + 1)
    /\ log' = Append(log, LogEntry(FALSE, <<>>, FALSE, "none"))
    /\ UNCHANGED <<pc, nfields, nfiles, nchunks, has_data, line_number, success_count,
                   product, store, response>>

\* rdr.records() yields Err(e)
RecordParseError(detail) ==
    /\ pc = "rows"
    /\ has_data
    /\ Len(log) < MaxRows
    /\ errors' = Append(errors, ParseErrorDoc(line_number, detail))
    /\ errRow' = Append(errRow, Len(log) + 1)
    /\ log' = Append(log, LogEntry(FALSE, <<>>, FALSE, "none"))
    /\ line_number' = NextLineNumber(line_number)
    /\ UNCHANGED <<pc, nfields, nfiles, nchunks, has_data, success_count, product, store, response>>

\* rdr.records() is exhausted: back to payload.next()
EndOfRecords ==
    /\ pc = "rows"
    /\ pc' = "fields"
    /\ line_number' = 0
    /\ has_data' = FALSE
    /\ UNCHANGED <<nfields, nfiles, nchunks, errors, success_count, product, store,
                   response, log, errRow>>

\* insert_one returns Ok
InsertOk ==
    /\ pc = "insert"
    /\ store' = Append(store, product)
    /\ success_count' = CountAfterInsert(success_count, TRUE)
    /\ log' = [log EXCEPT ![Len(log)].outcome = "ok"]
    /\ product' = NoProduct
    /\ line_number' = NextLineNumber(line_number)
    /\ pc' = "rows"
    /\ UNCHANGED <<nfields, nfiles, nchunks, has_data, errors, response, errRow>>

\* variant: the insert failure is propagated with `?`, as create_product does
InsertErrAborts(detail) ==
    /\ pc = "insert"
    /\ log' = [log EXCEPT ![Len(log)].outcome = "err"]
    /\ pc' = "done"
    /\ response' = Fault(500, "Database error")
    /\ UNCHANGED <<nfields, nfiles, nchunks, has_data, line_number, errors, success_count,
                   product, store, errRow>>

\* insert_one returns Err(e)
InsertErr(detail) ==
    /\ pc = "insert"
    /\ success_count' = CountAfterInsert(success_count, FALSE)
    /\ errors' = Append(errors, DatabaseErrorDoc(line_number, detail, log[Len(log)].record))
    /\ errRow' = Append(errRow, Len(log))
    /\ log' = [log EXCEPT ![Len(log)].outcome = "err"]
    /\ product' = NoProduct
    /\ line_number' = NextLineNumber(line_number)
    /\ pc' = "rows"
    /\ UNCHANGED <<nfields, nfiles, nchunks, has_data, store, response>>

\* payload.next() yields None: the response is built from the accumulators
Respond ==
    /\ pc = "fields"
    /\ pc' = "done"
    /\ response' = Outcome(errors, success_count)
    /\ UNCHANGED <<nfields, nfiles, nchunks, has_data, line_number, errors, success_count,
                   product, store, log, errRow>>

Next ==
    \/ NextFieldFile
    \/ NextFieldOther
    \/ MultipartError
    \/ TempFileError
    \/ ReadChunk
    \/ ChunkError
    \/ WriteError
    \/ OpenReader
    \/ ReopenError
    \/ \E record \in SampleRecords : ReadRecord(record)
    \/ \E detail \in ParseErrorDetails : RecordParseError(detail)
    \/ EndOfRecords
    \/ InsertOk
    \/ \E detail \in DatabaseErrorDetails : InsertErr(detail)
    \/ Respond

Spec == Init /\ [][Next]_vars

(***************************************************************************)
(* One record through the Ok arm of the loop, for the properties of the    *)
(* sanitizers and of the validation: the handler is about to read the      *)
(* first record of a file, and the record is any of RowInputs.             *)
(***************************************************************************)
SeqsUpTo(S, n) == UNION {[1..k -> S] : k \in 0..n}

NameChars == {"a", " ", "#", "(", ")", "!", "_", "-"}

NameInputs == {s \in SeqsUpTo(NameChars, MaxNameLen) : s = Trim(s)}

PriceChars == {"$", " ", "ZWSP", "5", "-"}

FixedPrices ==
    { <<"N", "a", "N">>, <<"a", "b", "c">>, <<"i", "n", "f">>, <<"-", "0">>,
      <<"1", "e", "2">>, <<"$", "1", "9", ".", "9", "9">>, <<"-", "0", ".", "5">>,
      <<"5", "BOM">>, <<"+", "5">>, <<"-", "i", "n", "f">> }

PriceInputs == {s \in SeqsUpTo(PriceChars, MaxPriceLen) : s = Trim(s)} \cup FixedPrices

CategoryInputs ==
    { <<"e", "l", "e", "c", "t", "r", "o", "n", "i", "c", "s">>,
      <<"c", "l", "o", "t", "h", "i", "n", "g">>,
      <<"f", "o", "o", "d">>, <<"F", "o", "o", "d">>,
      <<"b", "o", "o", "k", "s">>, <<"t", "o", "y", "s">>, <<>> }

SaleInputs ==
    { <<"t", "r", "u", "e">>, <<"f", "a", "l", "s", "e">>, <<"T", "r", "u", "e">>,
      <<"y", "e", "s">>, <<>> }

Food == <<"f", "o", "o", "d">>

True == <<"t", "r", "u", "e">>

CrossRows ==
    { <<n, p, c, s, <<"z">>>> :
        n \in {<<>>, <<"W">>, <<"!", "#", "(">>, <<"a", " ", "#", "1">>},
        p \in {<<>>, <<"5">>, <<"-", "5">>, <<"a", "b", "c">>, <<"N", "a", "N">>},
        c \in {Food, <<"t", "o", "y", "s">>},
        s \in {True, <<"x">>} }

RowInputs ==
    {<<n, <<"5">>, Food, True>> : n \in NameInputs}
    \cup {<<<<"W">>, p, Food, True>> : p \in PriceInputs}
    \cup {<<<<"W">>, <<"5">>, c, s>> : c \in CategoryInputs, s \in SaleInputs}
    \cup {SubSeq(r, 1, k) : r \in CrossRows, k \in 1..5}
    \cup SampleRecords

InitRow ==
    /\ pc = "rows"
    /\ nfields = 1
    /\ nfiles = 1
    /\ nchunks = 0
    /\ has_data = TRUE
    /\ line_number = 2
    /\ errors = <<>>
    /\ success_count = 0
    /\ product = NoProduct
    /\ store = <<>>
    /\ response = NoResponse
    /\ log = <<>>
    /\ errRow = <<>>

RowRead ==
    /\ log = <<>>
    /\ \E record \in RowInputs : ReadRecord(record)

NextRow ==
    \/ RowRead
    \/ InsertOk
    \/ \E detail \in DatabaseErrorDetails : InsertErr(detail)

SpecRow == InitRow /\ [][NextRow]_vars

(***************************************************************************)
(* Reading the history: the errors one record pushed, the kind of an       *)
(* error, the position of a record in its file.                            *)
(***************************************************************************)
RECURSIVE ErrorsOfRowUpTo(_, _)
ErrorsOfRowUpTo(k, n) ==
    IF n = 0 THEN <<>>
    ELSE ErrorsOfRowUpTo(k, n - 1) \o (IF errRow[n] = k THEN <<errors[n]>> ELSE <<>>)

ErrorsOfRow(k) == ErrorsOfRowUpTo(k, Len(errors))

IsDatabaseError(e) == Head(e.error) = "Database error: "

IsParseError(e) == Head(e.error) = "Failed to parse CSV record: "

IsColumnError(e) == e.error = <<"Invalid number of columns">>

IsNameError(e) == e.error = <<"Name is required">>

IsPriceError(e) ==
    Head(e.error) \in {"Price is required",
                       "Invalid price: must be non-negative, got: '",
                       "Invalid price format. Expected format: $X.XX, got: '"}

IsValidationError(e) == IsColumnError(e) \/ IsNameError(e) \/ IsPriceError(e)

ValidationErrorsOfRow(k) == SelectSeq(ErrorsOfRow(k), IsValidationError)

Rank(e) ==
    CASE IsColumnError(e) -> 1
      [] IsNameError(e) -> 2
      [] IsPriceError(e) -> 3
      [] IsDatabaseError(e) -> 4
      [] OTHER -> 0

PosInFile(k) == Cardinality({j \in 1..k : log[j].field = log[k].field})

Inserted == {k \in 1..Len(log) : log[k].outcome = "ok"}

Finished == pc = "done" /\ response.kind \in {"message", "errors"}

ReportedCount(resp) == IF resp.kind = "message" THEN resp.n ELSE 0

ReportedErrors(resp) == IF resp.kind = "errors" THEN resp.errors ELSE <<>>

(***************************************************************************)
(* C1: every parsed record is handed to insert_one if and only if it       *)
(* pushed no column-count, name or price error; a record that pushed one   *)
(* never reaches the store, so the store holds exactly the products of     *)
(* the error-free records whose insert succeeded.                          *)
(***************************************************************************)
C1_InsertIffNoValidationError ==
    /\ \A k \in 1..Len(log) :
          log[k].parsed =>
             /\ log[k].attempted <=> (ValidationErrorsOfRow(k) = <<>>)
             /\ ValidationErrorsOfRow(k) # <<>> => log[k].outcome = "none"
    /\ Len(store) = Cardinality(Inserted)
    /\ \A k \in Inserted : ValidationErrorsOfRow(k) = <<>>

C1_Witness ==
    /\ \E k \in 1..Len(log) :
          log[k].parsed /\ Len(log[k].record) = 3 /\ ~log[k].attempted
          /\ Len(ValidationErrorsOfRow(k)) = 1
    /\ \E k \in 1..Len(log) : log[k].attempted /\ log[k].outcome = "ok"

(***************************************************************************)
(* C2: success_count is at every point the number of records whose insert  *)
(* succeeded (the number of documents put in the store by this request);   *)
(* validation errors, parse errors and failed inserts leave it unchanged.  *)
(***************************************************************************)
C2_SuccessCountIsInserted ==
    /\ success_count = Cardinality(Inserted)
    /\ success_count = Len(store)

C2_Witness ==
    /\ Finished
    /\ success_count = 1
    /\ \E k \in 1..Len(log) : log[k].outcome = "err"
    /\ \E k \in 1..Len(log) : ~log[k].attempted

(***************************************************************************)
(* C3 as claimed: when an import finishes, errors is non-empty iff some    *)
(* row had a validation failure or an insertion failure.                   *)
(***************************************************************************)
C3_ErrorsIffValidationOrInsertFailure ==
    Finished =>
       (errors # <<>> <=>
           \E k \in 1..Len(log) :
               \/ log[k].parsed /\ HasError(log[k].record)
               \/ log[k].outcome = "err")

(***************************************************************************)
(* C3 amended: when an import finishes, errors is non-empty iff some row   *)
(* had a parse failure, a validation failure or an insertion failure.      *)
(***************************************************************************)
C3_ErrorsIffAnyRowFailure ==
    Finished =>
       (errors # <<>> <=>
           \E k \in 1..Len(log) :
               \/ ~log[k].parsed
               \/ log[k].parsed /\ HasError(log[k].record)
               \/ log[k].outcome = "err")

C3_Witness ==
    /\ Finished
    /\ errors # <<>>
    /\ \E k \in 1..Len(log) : ~log[k].parsed
    /\ \A k \in 1..Len(log) : ~log[k].parsed \/ log[k].outcome = "ok"

(***************************************************************************)
(* C4: errors is ordered by row encounter order, and the errors of one     *)
(* row appear in the order column-count, name, price, insertion.           *)
(***************************************************************************)
C4_ErrorsOrdered ==
    /\ Len(errRow) = Len(errors)
    /\ \A i, j \in 1..Len(errors) :
          i < j =>
             /\ errRow[i] <= errRow[j]
             /\ log[errRow[i]].field = log[errRow[j]].field
                   => errors[i].line <= errors[j].line
             /\ errRow[i] = errRow[j] => Rank(errors[i]) < Rank(errors[j])

C4_Witness ==
    /\ \E k \in 1..Len(log) : Len(ErrorsOfRow(k)) = 3
    /\ \E k \in 1..Len(log) :
          Len(ErrorsOfRow(k)) = 1 /\ IsDatabaseError(ErrorsOfRow(k)[1])
    /\ \E i, j \in 1..Len(errors) : errRow[i] < errRow[j]

(***************************************************************************)
(* C5: a record that fails to parse adds exactly one "Failed to parse CSV  *)
(* record" error for its line, a failed insert adds exactly one "Database  *)
(* error" for its line, neither ends the loop (the handler goes on to the  *)
(* next record, one line further, without returning), and a record is      *)
(* treated the same whatever failed before it: two occurrences of the same *)
(* record push the same validation errors and are both attempted or both   *)
(* not.                                                                    *)
(***************************************************************************)
ParseFailureStep == Len(log') = Len(log) + 1 /\ ~log'[Len(log')].parsed

InsertFailureStep == pc = "insert" /\ log'[Len(log)].outcome = "err"

LoopGoesOn ==
    /\ pc' = "rows"
    /\ line_number' = line_number + 1
    /\ response' = response
    /\ success_count' = success_count
    /\ store' = store

WithoutLine(errs) == [i \in 1..Len(errs) |-> [error |-> errs[i].error, data |-> errs[i].data]]

\* the record just read is treated as every earlier occurrence of it was
HistoryIndependent ==
    \A j \in 1..(Len(log) - 1) :
        (log[j].parsed /\ log[Len(log)].parsed /\ log[j].record = log[Len(log)].record) =>
            /\ log[j].attempted = log[Len(log)].attempted
            /\ WithoutLine(ValidationErrorsOfRow(j))
                  = WithoutLine(ValidationErrorsOfRow(Len(log)))

C5_RowFailureNeverAborts ==
    [][/\ ParseFailureStep =>
             /\ \E detail \in ParseErrorDetails :
                   errors' = Append(errors, ParseErrorDoc(line_number, detail))
             /\ LoopGoesOn
       /\ InsertFailureStep =>
             /\ \E detail \in DatabaseErrorDetails :
                   errors' = Append(errors,
                       DatabaseErrorDoc(line_number, detail, log[Len(log)].record))
             /\ LoopGoesOn
       /\ Len(log') = Len(log) + 1 => HistoryIndependent']_vars

C5_Witness ==
    \E i, j, k \in 1..Len(log) :
        /\ i < j /\ j < k
        /\ log[i].field = log[k].field
        /\ ~log[i].parsed
        /\ log[j].outcome = "err"
        /\ log[k].outcome = "ok"
        /\ log[k].record = log[j].record

(***************************************************************************)
(* C6 as claimed: the handler returns Err only before any row has been     *)
(* processed; whenever a stream error is reported no record was validated  *)
(* and no product was inserted.                                            *)
(***************************************************************************)
C6_FaultOnlyBeforeRows ==
    response.kind = "fault" => (log = <<>> /\ store = <<>>)

(***************************************************************************)
(* C7 as claimed: when the upload is cut, the response reports the         *)
(* success count and the errors accumulated so far.                        *)
(***************************************************************************)
C7_PartialOutcomeReported ==
    response.kind = "fault" =>
        /\ ReportedCount(response) = success_count
        /\ ReportedErrors(response) = errors

(***************************************************************************)
(* C8: after all rows are processed the response is the message shape      *)
(* with n = success_count exactly when errors is empty, and otherwise the  *)
(* errors shape carrying the whole errors list in order, also when         *)
(* success_count > 0.                                                      *)
(***************************************************************************)
C8_ResponseShape ==
    Finished =>
        /\ response.kind = "message" <=> errors = <<>>
        /\ response.kind = "message" => response.n = success_count
        /\ response.kind = "errors" => response.errors = errors

C8_Witness ==
    /\ Finished
    /\ response.kind = "errors"
    /\ success_count > 0
    /\ Len(response.errors) >= 2

(***************************************************************************)
(* C9: every parsed row with fewer than 4 columns has, first among its     *)
(* errors, "Invalid number of columns" for its line; its fields are still  *)
(* validated, so the name error and the price error follow when the name   *)
(* or the price is bad; the row is never inserted.                         *)
(***************************************************************************)
C9_ShortRowAlwaysReported ==
    \A k \in 1..Len(log) :
        (log[k].parsed /\ Len(log[k].record) < 4) =>
            /\ ErrorsOfRow(k) # <<>>
            /\ ErrorsOfRow(k)[1] =
                  ErrorDoc(log[k].line, <<"Invalid number of columns">>, log[k].record)
            /\ NameError(log[k].record) <=>
                  \E i \in 1..Len(ErrorsOfRow(k)) :
                      IsNameError(ErrorsOfRow(k)[i]) /\ ErrorsOfRow(k)[i].line = log[k].line
            /\ PriceCheck(log[k].record).error <=>
                  \E i \in 1..Len(ErrorsOfRow(k)) :
                      IsPriceError(ErrorsOfRow(k)[i]) /\ ErrorsOfRow(k)[i].line = log[k].line
            /\ ~log[k].attempted
            /\ log[k].outcome = "none"

C9_Witness ==
    /\ \E k \in 1..Len(log) :
          log[k].parsed /\ Len(log[k].record) = 3 /\ Len(ErrorsOfRow(k)) = 1
    /\ \E k \in 1..Len(log) :
          log[k].parsed /\ Len(log[k].record) = 2 /\ Len(ErrorsOfRow(k)) = 3
    /\ Finished

(***************************************************************************)
(* C10: the first record of a file has line 2 and each record, whatever    *)
(* the number of errors it pushed (a parse error included), has the line   *)
(* of the record before it plus 1; every error carries the line of the     *)
(* record that pushed it.                                                  *)
(***************************************************************************)
C10_LineNumbers ==
    /\ \A k \in 1..Len(log) : log[k].line = PosInFile(k) + 1
    /\ \A i \in 1..Len(errors) : errors[i].line = PosInFile(errRow[i]) + 1
    /\ pc = "rows" =>
          line_number = 2 + Cardinality({k \in 1..Len(log) : log[k].field = nfields})

C10_Witness ==
    /\ Len(log) = 3
    /\ log[1].field = log[3].field
    /\ ~log[1].parsed
    /\ Len(ErrorsOfRow(2)) = 3
    /\ log[3].outcome = "err"
    /\ errors[Len(errors)].line = 4

(***************************************************************************)
(* C11: the name of the product handed to the store for a row is the       *)
(* sanitized name, one space, the sanitized id, so it ends with a space    *)
(* when the id is empty; the sanitized name is made of alphanumeric,       *)
(* whitespace and '-' characters only and does not start with whitespace;  *)
(* a row of at least 4 columns with a non-empty sanitized name and a       *)
(* price that passes the price check is handed to the store.               *)
(***************************************************************************)
\* the name of the product handed to insert_one for row k, when it is on
\* record (awaited in product, or inserted in store)
HandedName(k) ==
    IF log[k].outcome = "pending" THEN product.name
    ELSE store[Cardinality({j \in 1..k : log[j].outcome = "ok"})].name

C11_ProductName ==
    \A k \in 1..Len(log) :
        LET r == log[k].record
            sanitizedName == CleanName(ProductName(r))
            sanitizedId == SanitizedId(ProductId(r))
        IN /\ (log[k].parsed /\ Len(r) >= 4 /\ ~NameError(r) /\ ~PriceCheck(r).error)
                 => log[k].attempted
           /\ log[k].outcome \in {"pending", "ok"} =>
                 /\ HandedName(k) = sanitizedName \o <<" ">> \o sanitizedId
                 /\ sanitizedId = <<>> => HandedName(k)[Len(HandedName(k))] = " "
                 /\ sanitizedName # <<>>
                 /\ ~IsWhitespace(sanitizedName[1])
                 /\ \A i \in 1..Len(sanitizedName) :
                       sanitizedName[i] \in Digits \cup LowerLetters \cup UpperLetters
                                            \cup {" ", "TAB", "CR", "LF", "-"}

C11_Witness ==
    /\ Len(store) = 1
    /\ Contains(log[1].record[1], "!")
    /\ Contains(log[1].record[1], " ")
    /\ ~Contains(log[1].record[1], "#")
    /\ store[1].name[Len(store[1].name)] = " "

(***************************************************************************)
(* C12 as claimed: cleaning an already cleaned price string returns it     *)
(* unchanged, for every price string.                                      *)
(***************************************************************************)
C12_CleaningIdempotent ==
    \A k \in 1..Len(log) :
        log[k].parsed =>
            LET cleaned == CleanedPrice(PriceStr(log[k].record))
            IN CleanedPrice(cleaned) = cleaned

(***************************************************************************)
(* C12 amended: cleaning an already cleaned price string returns it        *)
(* unchanged for every price string in which '$' occurs only in the        *)
(* leading run of '$' and which holds no U+200B, U+FEFF, carriage return   *)
(* or line feed.                                                           *)
(***************************************************************************)
OnlyLeadingDollars(s) == ~Contains(TrimStartMatches(s, "$"), "$")

NoHiddenChars(s) == \A i \in 1..Len(s) : s[i] \notin {"ZWSP", "BOM", "CR", "LF"}

C12_CleaningIdempotentOnPlainPrices ==
    \A k \in 1..Len(log) :
        LET price_str == PriceStr(log[k].record)
            cleaned == CleanedPrice(price_str)
        IN (log[k].parsed /\ OnlyLeadingDollars(price_str) /\ NoHiddenChars(price_str))
              => CleanedPrice(cleaned) = cleaned

C12_Witness ==
    /\ Len(log) = 1
    /\ PriceStr(log[1].record) = <<"$", "$", " ", "5">>
    /\ CleanedPrice(PriceStr(log[1].record)) = <<"5">>
    /\ pc = "insert"

(***************************************************************************)
(* C13 as claimed: an import of N parsed rows, V of which fail validation  *)
(* and F of which fail at insertion, ends with success_count = N - V - F   *)
(* and V + F errors.                                                       *)
(***************************************************************************)
FailsValidation(record) ==
    ColumnCountError(record) \/ NameError(record) \/ PriceCheck(record).error

ValidationFailures == {k \in 1..Len(log) : log[k].parsed /\ FailsValidation(log[k].record)}

InsertionFailures == {k \in 1..Len(log) : log[k].outcome = "err"}

AllParsed == \A k \in 1..Len(log) : log[k].parsed

C13_CountsOneErrorPerRow ==
    (Finished /\ AllParsed) =>
        /\ success_count = Len(log) - Cardinality(ValidationFailures) - Cardinality(InsertionFailures)
        /\ Len(errors) = Cardinality(ValidationFailures) + Cardinality(InsertionFailures)

(***************************************************************************)
(* C13 amended: such an import ends with success_count = N - V - F and     *)
(* E + F errors, where E is the number of validation errors of the V       *)
(* failing rows, one to three per row (so V <= E <= 3V, and E = V when     *)
(* every failing row has a single error).                                  *)
(***************************************************************************)
ErrorCount(record) ==
    (IF ColumnCountError(record) THEN 1 ELSE 0)
    + (IF NameError(record) THEN 1 ELSE 0)
    + (IF PriceCheck(record).error THEN 1 ELSE 0)

RECURSIVE ValidationErrorTotal(_)
ValidationErrorTotal(n) ==
    IF n = 0 THEN 0
    ELSE ValidationErrorTotal(n - 1)
         + (IF log[n].parsed THEN ErrorCount(log[n].record) ELSE 0)

C13_Counts ==
    (Finished /\ AllParsed) =>
        LET N == Len(log)
            V == Cardinality(ValidationFailures)
            F == Cardinality(InsertionFailures)
            E == ValidationErrorTotal(N)
        IN /\ success_count = N - V - F
           /\ Len(errors) = E + F
           /\ V <= E
           /\ E <= 3 * V

C13_Witness ==
    /\ Finished
    /\ AllParsed
    /\ Len(log) = 3
    /\ Cardinality(ValidationFailures) = 1
    /\ Cardinality(InsertionFailures) = 1
    /\ success_count = 1
    /\ Len(errors) = 4

(***************************************************************************)
(* C14 as claimed: the validation errors of a parsed record are exactly    *)
(* one column-count error if it has fewer than 4 fields, one "Name is      *)
(* required" if the sanitized name is empty, and one price error if the    *)
(* price is empty, negative or unparseable; category and sale flag add no  *)
(* error, an unrecognized category gives Other and an unparseable sale     *)
(* flag false; the row ",,," gives "Name is required" and "Price is        *)
(* required" and no insert.                                                *)
(***************************************************************************)
CountOf(errs, Kind(_)) == Len(SelectSeq(errs, Kind))

PriceEmpty(record) == PriceStr(record) = <<>>

PriceUnparseable(record) ==
    ~PriceEmpty(record) /\ ~ParseF64(CleanedPrice(PriceStr(record))).ok

\* the parsed price is below zero
PriceNegative(record) ==
    LET p == ParseF64(CleanedPrice(PriceStr(record)))
    IN /\ ~PriceEmpty(record)
       /\ p.ok
       /\ p.neg
       /\ p.class = "inf" \/ (p.class = "num" /\ p.mant > 0)

PriceNaN(record) ==
    LET p == ParseF64(CleanedPrice(PriceStr(record)))
    IN ~PriceEmpty(record) /\ p.ok /\ p.class = "nan"

KnownCategories ==
    { <<"e", "l", "e", "c", "t", "r", "o", "n", "i", "c", "s">>,
      <<"c", "l", "o", "t", "h", "i", "n", "g">>,
      <<"f", "o", "o", "d">>,
      <<"b", "o", "o", "k", "s">> }

EmptyRow == <<<<>>, <<>>, <<>>, <<>>>>

\* what the claim says of row k once the set of bad prices is fixed
RulesIndependent(k, priceBad) ==
    LET r == log[k].record
        errs == ErrorsOfRow(k)
    IN /\ CountOf(errs, IsColumnError) = (IF Len(r) < 4 THEN 1 ELSE 0)
       /\ CountOf(errs, IsNameError) = (IF CleanName(ProductName(r)) = <<>> THEN 1 ELSE 0)
       /\ CountOf(errs, IsPriceError) = (IF priceBad THEN 1 ELSE 0)
       /\ Len(errs) = CountOf(errs, IsColumnError) + CountOf(errs, IsNameError)
                      + CountOf(errs, IsPriceError) + CountOf(errs, IsDatabaseError)
       /\ Len(ValidationErrorsOfRow(k)) <= 3
       /\ pc = "insert" =>
             /\ product.category \in {"Electronics", "Clothing", "Food", "Books", "Other"}
             /\ CategoryStr(r) \notin KnownCategories => product.category = "Other"
             /\ product.has_active_sale <=> (Len(r) >= 4 /\ Trim(r[4]) = <<"t", "r", "u", "e">>)
       /\ r = EmptyRow =>
             /\ [i \in 1..Len(errs) |-> errs[i].error]
                   = << <<"Name is required">>, <<"Price is required">> >>
             /\ ~log[k].attempted

C14_RulesIndependent ==
    \A k \in 1..Len(log) :
        log[k].parsed =>
            RulesIndependent(k, PriceEmpty(log[k].record)
                                \/ PriceNegative(log[k].record)
                                \/ PriceUnparseable(log[k].record))

(***************************************************************************)
(* C14 amended: the same, with one price error if the price is empty,      *)
(* unparseable, negative or NaN (every parsed value p for which p >= 0.0   *)
(* is false).                                                              *)
(***************************************************************************)
C14_RulesIndependentWithNaN ==
    \A k \in 1..Len(log) :
        log[k].parsed =>
            RulesIndependent(k, PriceEmpty(log[k].record)
                                \/ PriceNegative(log[k].record)
                                \/ PriceNaN(log[k].record)
                                \/ PriceUnparseable(log[k].record))

C14_Witness ==
    /\ Len(log) = 1
    /\ log[1].record = EmptyRow
    /\ Len(errors) = 2
    /\ pc = "rows"

(***************************************************************************)
(* C15: rows are processed one after the other: an insert is outstanding   *)
(* exactly while the handler awaits it and only for the newest row (no     *)
(* record is read while one is outstanding); every eligible row gets one   *)
(* insert call and no other row gets one, and the store receives the       *)
(* products in row order.                                                  *)
(***************************************************************************)
Outstanding == {k \in 1..Len(log) : log[k].outcome = "pending"}

RECURSIVE InsertedProducts(_)
InsertedProducts(n) ==
    IF n = 0 THEN <<>>
    ELSE InsertedProducts(n - 1)
         \o (IF log[n].outcome = "ok" THEN <<ProductOf(log[n].record)>> ELSE <<>>)

C15_StrictlySequential ==
    /\ Cardinality(Outstanding) <= 1
    /\ Outstanding # {} <=> pc = "insert"
    /\ Outstanding \subseteq {Len(log)}
    /\ \A k \in 1..Len(log) :
          /\ log[k].attempted <=> log[k].outcome \in {"pending", "ok", "err"}
          /\ log[k].attempted <=> (log[k].parsed /\ ValidationErrorsOfRow(k) = <<>>)
    /\ Len(store) + CountOf(errors, IsDatabaseError) + Cardinality(Outstanding)
          = Cardinality({k \in 1..Len(log) : log[k].attempted})
    /\ store = InsertedProducts(Len(log))

C15_Witness ==
    /\ pc = "insert"
    /\ Len(log) = 3
    /\ log[1].outcome = "ok"
    /\ log[2].outcome = "err"
    /\ Len(store) = 1

(***************************************************************************)
(* C16: the sanitized id of a row is obtained from the text after the      *)
(* first '#' of the first column by stripping one leading '(' and one      *)
(* trailing ')' and keeping the alphanumeric characters, '-' and '_'; it   *)
(* is empty when nothing is kept and '#' followed by the kept characters   *)
(* otherwise, so it is empty or '#' and at least one character of that     *)
(* class; it is the suffix of the name handed to the store.                *)
(***************************************************************************)
IdTag(record) ==
    LET first == GetOr(record, 0, <<>>)
    IN IF Contains(first, "#")
       THEN SubSeq(first, FirstIndex(first, "#") + 1, Len(first))
       ELSE <<>>

StripOneParenEachSide(s) ==
    LET t == IF s # <<>> /\ Head(s) = "(" THEN Tail(s) ELSE s
    IN IF t # <<>> /\ t[Len(t)] = ")" THEN SubSeq(t, 1, Len(t) - 1) ELSE t

IdClass == Digits \cup LowerLetters \cup UpperLetters \cup {"-", "_"}

ExpectedId(record) ==
    LET kept == SelectSeq(StripOneParenEachSide(IdTag(record)), LAMBDA c : c \in IdClass)
    IN IF kept = <<>> THEN <<>> ELSE <<"#">> \o kept

C16_IdSanitization ==
    \A k \in 1..Len(log) :
        log[k].parsed =>
            LET r == log[k].record
                id == SanitizedId(ProductId(r))
            IN /\ id = ExpectedId(r)
               /\ \/ id = <<>>
                  \/ /\ Len(id) >= 2
                     /\ id[1] = "#"
                     /\ \A i \in 2..Len(id) : id[i] \in IdClass
               /\ pc = "insert" =>
                     product.name = CleanName(ProductName(r)) \o <<" ">> \o ExpectedId(r)

C16_Witness ==
    /\ pc = "insert"
    /\ Len(log) = 1
    /\ log[1].record[1] = <<"a", "#", "(", "_">>
    /\ product.name = <<"a", " ", "#", "_">>

(***************************************************************************)
(* C17: the "file" fields of one request are imported one after the other  *)
(* into the same accumulators: success_count counts the inserts of all     *)
(* fields and errors keeps the errors of the rows of all fields, while the *)
(* line counter restarts at 2 in each field, so two rows with the same     *)
(* line are rows of different fields; the response covers all fields;      *)
(* rows come from "file" fields only, and a request without a "file"       *)
(* field ends with "Successfully imported 0 products".                     *)
(***************************************************************************)
RowFailed(k) ==
    \/ ~log[k].parsed
    \/ log[k].parsed /\ FailsValidation(log[k].record)
    \/ log[k].outcome = "err"

FieldsWithRows == {log[k].field : k \in 1..Len(log)}

C17_FieldsShareAccumulators ==
    /\ success_count = Cardinality(Inserted)
    /\ \A k \in 1..Len(log) :
          /\ RowFailed(k) <=> ErrorsOfRow(k) # <<>>
          /\ log[k].line = PosInFile(k) + 1
          /\ \A j \in 1..Len(log) :
                (j # k /\ log[j].line = log[k].line) => log[j].field # log[k].field
    /\ Len(errRow) = Len(errors)
    /\ \A i \in 1..Len(errors) : errRow[i] \in 1..Len(log)
    /\ pc = "rows" =>
          line_number = 2 + Cardinality({k \in 1..Len(log) : log[k].field = nfields})
    /\ Cardinality(FieldsWithRows) <= nfiles
    /\ nfiles <= nfields
    /\ nfiles = 0 => (log = <<>> /\ errors = <<>> /\ success_count = 0 /\ store = <<>>)
    /\ Finished =>
          /\ response.kind = "message" => response.n = Cardinality(Inserted)
          /\ response.kind = "errors" => response.errors = errors
          /\ nfiles = 0 => response = [kind |-> "message", status |-> 200, n |-> 0]

C17_Witness ==
    /\ Finished
    /\ nfiles = 2
    /\ Len(log) = 3
    /\ log[1].field # log[2].field
    /\ log[1].line = 2
    /\ log[2].line = 2
    /\ RowFailed(1)
    /\ RowFailed(2)
    /\ log[3].outcome = "ok"
    /\ response.kind = "errors"
    /\ \E i, j \in 1..Len(response.errors) :
          /\ errRow[i] = 1
          /\ errRow[j] = 2
          /\ response.errors[i].line = response.errors[j].line

====
